---------------------------- MODULE Spec2Model ----------------------------
(***************************************************************************)
(* BinCrypt: byte <-> binary-text conversion (file_to_binary /            *)
(* deconvert_binary) and the 7-bit payload + 1-bit key split (encrypt /   *)
(* decrypt) of src/BinCrypt.py.                                           *)
(*                                                                         *)
(* Text is a sequence of one-character strings; a line keeps its "\n"      *)
(* terminator; a byte or a code point is a natural number.  An optional    *)
(* value (Python's None) is a sequence of length 0 or 1.                   *)
(***************************************************************************)
EXTENDS Integers, Sequences, FiniteSets, TLC

VARIABLES
    option,       \* the command main() dispatched: convert, deconvert, encrypt, key
    pc,           \* position inside the running function
    f_in,         \* the bytes of the binary input file
    pos,          \* read offset into f_in
    chunk_size,   \* bytes per read
    spacing,      \* separator flag of the encoders
    f_out,        \* the payload text file: a sequence of lines
    f_key,        \* the key text file: a sequence of lines
    ln,           \* number of the next line of f_out the decoder reads
    binary_str,   \* the current line, stripped and without spaces
    i,            \* offset of the current group in binary_str
    key_bits,     \* the flattened key stream
    key_index,    \* index of the next key bit
    text,         \* the decoder's accumulated output (code points)
    errors,       \* the decoder's accumulated diagnostics
    printed,      \* the diagnostics printed so far
    result,       \* the value the decoder returned (none yet: <<>>)
    saved,        \* the contents handed to save_file (none yet: <<>>)
    errno,        \* the pass ended in the generic exception handler
    output_path   \* decrypt was given an output path

vars == <<option, pc, f_in, pos, chunk_size, spacing, f_out, f_key, ln,
          binary_str, i, key_bits, key_index, text, errors, printed,
          result, saved, errno, output_path>>

---------------------------------------------------------------------------
(* Bounds of the model and the sampled inputs.                             *)

MaxBytes == 3
MaxChunk == 2
MaxLines == 2
MaxGroups == 2
MaxKeyBits == 3

\* bytes the encoders are run on: 0x00, 0x01, 'A', 0x80, 0xFF
ByteSet == {0, 1, 65, 128, 255}

\* values of the well-formed groups of a hand-written payload line
SampleBytes == <<65, 200, 0, 255>>

Min(a, b) == IF a < b THEN a ELSE b

RECURSIVE Pow2(_)
Pow2(n) == IF n = 0 THEN 1 ELSE 2 * Pow2(n - 1)

SeqsUpTo(S, n) == UNION { [1..k -> S] : k \in 0..n }

RECURSIVE Flatten(_)
Flatten(ss) == IF ss = <<>> THEN <<>> ELSE Head(ss) \o Flatten(Tail(ss))

---------------------------------------------------------------------------
(* String primitives of Python the program uses.                           *)

Whitespace == {" ", "\n"}

RECURSIVE LStrip(_)
LStrip(s) ==
    IF s # <<>> /\ Head(s) \in Whitespace THEN LStrip(Tail(s)) ELSE s

RECURSIVE RStrip(_)
RStrip(s) ==
    IF s # <<>> /\ s[Len(s)] \in Whitespace
    THEN RStrip(SubSeq(s, 1, Len(s) - 1)) ELSE s

\* line.strip()
Strip(s) == RStrip(LStrip(s))

\* s.replace(' ', '')
RemoveSpaces(s) == SelectSeq(s, LAMBDA c : c # " ")

\* any(...) written for all(...)
AnyBinary(s) == \E k \in 1..Len(s) : s[k] \in {"0", "1"}

\* all(c in '01' for c in s)
AllBinary(s) == \A k \in 1..Len(s) : s[k] \in {"0", "1"}

RECURSIVE Bin(_)
Bin(n) ==
    IF n < 2 THEN <<IF n = 1 THEN "1" ELSE "0">>
    ELSE Bin(n \div 2) \o <<IF n % 2 = 1 THEN "1" ELSE "0">>

RECURSIVE Zeros(_)
Zeros(n) == IF n <= 0 THEN <<>> ELSE <<"0">> \o Zeros(n - 1)

\* format(n, 'b'): the padding forgotten
FormatNoPad(n, width) == Bin(n)

\* format(n, '0<width>b'): binary, most significant bit first, zero padded
Format(n, width) == Zeros(width - Len(Bin(n))) \o Bin(n)

\* int(chunk, 2) on a chunk of '0'/'1'
RECURSIVE IntBase2(_)
IntBase2(chunk) ==
    IF chunk = <<>> THEN 0
    ELSE 2 * IntBase2(SubSeq(chunk, 1, Len(chunk) - 1))
         + (IF chunk[Len(chunk)] = "1" THEN 1 ELSE 0)

\* separator.join(list)
RECURSIVE Join(_, _)
Join(list, sep) ==
    IF list = <<>> THEN <<>>
    ELSE IF Len(list) = 1 THEN list[1]
    ELSE list[1] \o sep \o Join(Tail(list), sep)

Separator(sp) == IF sp THEN <<" ">> ELSE <<>>

\* f_in.read(chunk_size) at offset p
ReadChunk(bytes, p, size) == SubSeq(bytes, p + 1, Min(p + size, Len(bytes)))

---------------------------------------------------------------------------
(* Diagnostics: <<kind, unit>>.                                            *)

InvalidChar(line)     == <<"Invalid char in line", line>>
IncompleteLine(line)  == <<"Incomplete binary len line", line>>
SkippedChunk(chunk)   == <<"Skipped incomplete chunk", chunk>>
InvalidChunk(chunk)   == <<"Invalid binary chunk", chunk>>
RanOut                == <<"Ran out of key bits", <<>>>>

\* _process_binary_chunk without its length check
ProcessBinaryChunkAnyLength(chunk, bit_length) ==
    IF ~AllBinary(chunk)
    THEN [char |-> <<>>, error |-> <<InvalidChunk(chunk)>>]
    ELSE [char |-> <<IntBase2(chunk)>>, error |-> <<>>]

\* _process_binary_chunk dropping a short chunk without a message
ProcessBinaryChunkSilent(chunk, bit_length) ==
    IF Len(chunk) # bit_length
    THEN [char |-> <<>>, error |-> <<>>]
    ELSE IF ~AllBinary(chunk)
    THEN [char |-> <<>>, error |-> <<InvalidChunk(chunk)>>]
    ELSE [char |-> <<IntBase2(chunk)>>, error |-> <<>>]

\* _process_binary_chunk: the decoded character and the error, each optional
ProcessBinaryChunk(chunk, bit_length) ==
    IF Len(chunk) # bit_length
    THEN [char |-> <<>>, error |-> <<SkippedChunk(chunk)>>]
    ELSE IF ~AllBinary(chunk)
    THEN [char |-> <<>>, error |-> <<InvalidChunk(chunk)>>]
    ELSE [char |-> <<IntBase2(chunk)>>, error |-> <<>>]

\* the report loop starting one entry late
PrintErrorsOffByOne(es) == IF es = <<>> THEN <<>> ELSE Tail(es)

\* "for error in errors: print(error)"
PrintErrors(es) == es

---------------------------------------------------------------------------
(* file_to_binary                                                          *)

\* the line written for one chunk
BinaryLine(chunk, sp) ==
    Join([k \in 1..Len(chunk) |-> Format(chunk[k], 8)], Separator(sp))
        \o <<"\n">>

FileToBinaryChunk ==
    /\ option = "convert" /\ pc = "encode"
    /\ ReadChunk(f_in, pos, chunk_size) # <<>>
    /\ f_out' = Append(f_out, BinaryLine(ReadChunk(f_in, pos, chunk_size), spacing))
    /\ pos' = pos + Len(ReadChunk(f_in, pos, chunk_size))
    /\ UNCHANGED <<option, pc, f_in, chunk_size, spacing, f_key, ln, binary_str,
                   i, key_bits, key_index, text, errors, printed, result,
                   saved, errno, output_path>>

FileToBinaryDone ==
    /\ option = "convert" /\ pc = "encode"
    /\ ReadChunk(f_in, pos, chunk_size) = <<>>
    /\ pc' = "exit"
    /\ UNCHANGED <<option, f_in, pos, chunk_size, spacing, f_out, f_key, ln,
                   binary_str, i, key_bits, key_index, text, errors, printed,
                   result, saved, errno, output_path>>

---------------------------------------------------------------------------
(* deconvert_binary, called by main --deconvert                            *)

\* a second run of the program, on the file the first run wrote
InvokeDeconvert ==
    /\ option = "convert" /\ pc = "exit"
    /\ option' = "deconvert" /\ pc' = "start"
    /\ UNCHANGED <<f_in, pos, chunk_size, spacing, f_out, f_key, ln, binary_str,
                   i, key_bits, key_index, text, errors, printed, result,
                   saved, errno, output_path>>

DeconvertStart ==
    /\ option = "deconvert" /\ pc = "start"
    /\ text' = <<>> /\ errors' = <<>>
    /\ ln' = 1 /\ pc' = "line"
    /\ UNCHANGED <<option, f_in, pos, chunk_size, spacing, f_out, f_key,
                   binary_str, i, key_bits, key_index, printed, result, saved,
                   errno, output_path>>

\* one iteration of "for line in f" up to the group loop
DeconvertLine ==
    /\ option = "deconvert" /\ pc = "line" /\ ln <= Len(f_out)
    /\ LET line == f_out[ln]
           bs   == RemoveSpaces(Strip(line))
       IN  /\ binary_str' = bs
           /\ i' = 0
           /\ IF ~AllBinary(bs)
              THEN /\ errors' = Append(errors, InvalidChar(Strip(line)))
                   /\ ln' = ln + 1 /\ pc' = "line"
              ELSE /\ errors' = IF Len(bs) % 8 # 0
                                THEN Append(errors, IncompleteLine(Strip(line)))
                                ELSE errors
                   /\ IF Len(bs) = 0
                      THEN ln' = ln + 1 /\ pc' = "line"
                      ELSE ln' = ln /\ pc' = "group"
    /\ UNCHANGED <<option, f_in, pos, chunk_size, spacing, f_out, f_key,
                   key_bits, key_index, text, printed, result, saved, errno,
                   output_path>>

\* one iteration of "for i in range(0, len(binary_str), 8)"
DeconvertGroup ==
    /\ option = "deconvert" /\ pc = "group"
    /\ LET chunk == SubSeq(binary_str, i + 1, Min(i + 8, Len(binary_str)))
           r     == ProcessBinaryChunk(chunk, 8)
       IN  /\ text' = text \o r.char
           /\ errors' = errors \o r.error
    /\ IF i + 8 < Len(binary_str)
       THEN i' = i + 8 /\ ln' = ln /\ pc' = "group"
       ELSE i' = i /\ ln' = ln + 1 /\ pc' = "line"
    /\ UNCHANGED <<option, f_in, pos, chunk_size, spacing, f_out, f_key,
                   binary_str, key_bits, key_index, printed, result, saved,
                   errno, output_path>>

\* the loop is over: print the diagnostics, return the text
DeconvertReport ==
    /\ option = "deconvert" /\ pc = "line" /\ ln > Len(f_out)
    /\ printed' = printed \o PrintErrors(errors)
    /\ result' = <<text>>
    /\ pc' = "save"
    /\ UNCHANGED <<option, f_in, pos, chunk_size, spacing, f_out, f_key, ln,
                   binary_str, i, key_bits, key_index, text, errors, saved,
                   errno, output_path>>

\* main: save_file(text_content, output_path)
MainSaveFile ==
    /\ option = "deconvert" /\ pc = "save"
    /\ saved' = result
    /\ pc' = "done"
    /\ UNCHANGED <<option, f_in, pos, chunk_size, spacing, f_out, f_key, ln,
                   binary_str, i, key_bits, key_index, text, errors, printed,
                   result, errno, output_path>>

---------------------------------------------------------------------------
(* encrypt                                                                 *)

\* the key bit taken from the wrong end of the byte
SplitByteHighBit(byte) ==
    [binary_str |-> Format(byte \div 2, 7),
     key_bit    |-> IF byte >= 128 THEN "1" ELSE "0"]

\* _split_byte: the 7 high bits as text, the low bit as a character
SplitByte(byte) ==
    [binary_str |-> Format(byte \div 2, 7),
     key_bit    |-> IF byte % 2 = 1 THEN "1" ELSE "0"]

\* the payload line written for one chunk
PayloadLine(chunk, sp) ==
    Join([k \in 1..Len(chunk) |-> SplitByte(chunk[k]).binary_str], Separator(sp))
        \o <<"\n">>

\* the key line without the bit of the chunk's last byte
KeyLineShort(chunk) ==
    [k \in 1..(Len(chunk) - 1) |-> SplitByte(chunk[k]).key_bit] \o <<"\n">>

\* the key line written for one chunk
KeyLine(chunk) ==
    [k \in 1..Len(chunk) |-> SplitByte(chunk[k]).key_bit] \o <<"\n">>

EncryptChunk ==
    /\ option = "encrypt" /\ pc = "encode"
    /\ ReadChunk(f_in, pos, chunk_size) # <<>>
    /\ LET chunk == ReadChunk(f_in, pos, chunk_size)
       IN  /\ f_out' = Append(f_out, PayloadLine(chunk, spacing))
           /\ f_key' = Append(f_key, KeyLine(chunk))
           /\ pos' = pos + Len(chunk)
    /\ UNCHANGED <<option, pc, f_in, chunk_size, spacing, ln, binary_str, i,
                   key_bits, key_index, text, errors, printed, result, saved,
                   errno, output_path>>

EncryptDone ==
    /\ option = "encrypt" /\ pc = "encode"
    /\ ReadChunk(f_in, pos, chunk_size) = <<>>
    /\ pc' = "exit"
    /\ UNCHANGED <<option, f_in, pos, chunk_size, spacing, f_out, f_key, ln,
                   binary_str, i, key_bits, key_index, text, errors, printed,
                   result, saved, errno, output_path>>

---------------------------------------------------------------------------
(* decrypt, called by main --key                                           *)

Digits == {"0", "1", "2", "3", "4", "5", "6", "7", "8", "9"}

\* int(c) of one digit character
IntOfChar(c) ==
    CASE c = "0" -> 0 [] c = "1" -> 1 [] c = "2" -> 2 [] c = "3" -> 3
      [] c = "4" -> 4 [] c = "5" -> 5 [] c = "6" -> 6 [] c = "7" -> 7
      [] c = "8" -> 8 [] c = "9" -> 9

RECURSIVE BitOr(_, _)
BitOr(a, b) ==
    IF a = 0 THEN b
    ELSE IF b = 0 THEN a
    ELSE 2 * BitOr(a \div 2, b \div 2) + (IF a % 2 = 1 \/ b % 2 = 1 THEN 1 ELSE 0)

\* (seven_bits << 1) | last_bit
JoinByte(seven_bits, last_bit) == BitOr(seven_bits * 2, last_bit)

\* ''.join(line.strip() for line in key_lines)
FlattenKey(key_lines) ==
    Flatten([k \in 1..Len(key_lines) |-> Strip(key_lines[k])])

\* key_index >= len(key_bits)
KeyExhausted(index, bits) == index >= Len(bits)

\* the increment forgotten
AdvanceKeyStuck(index) == index

\* key_index += 1
AdvanceKey(index) == index + 1

\* where the group loop stands after "continue" at offset at of n characters
Continue(at, n, width) ==
    IF at + width < n
    THEN [pc |-> "group", i |-> at + width, lines |-> 0]
    ELSE [pc |-> "line", i |-> at, lines |-> 1]

\* "continue" written for "break"
BreakAsContinue(at, n, width) == Continue(at, n, width)

\* where the group loop stands after "break"
Break(at, n, width) == [pc |-> "line", i |-> at, lines |-> 1]

\* a second run of the program, on the two files the first run wrote
InvokeDecrypt ==
    /\ option = "encrypt" /\ pc = "exit"
    /\ option' = "key" /\ pc' = "start"
    /\ UNCHANGED <<f_in, pos, chunk_size, spacing, f_out, f_key, ln, binary_str,
                   i, key_bits, key_index, text, errors, printed, result,
                   saved, errno, output_path>>

DecryptStart ==
    /\ option = "key" /\ pc = "start"
    /\ text' = <<>> /\ errors' = <<>>
    /\ key_bits' = FlattenKey(f_key)
    /\ key_index' = 0
    /\ ln' = 1 /\ pc' = "line"
    /\ UNCHANGED <<option, f_in, pos, chunk_size, spacing, f_out, f_key,
                   binary_str, i, printed, result, saved, errno, output_path>>

\* one iteration of "for line in f_in" up to the group loop
DecryptLine ==
    /\ option = "key" /\ pc = "line" /\ ln <= Len(f_out)
    /\ LET line == f_out[ln]
           bs   == RemoveSpaces(Strip(line))
       IN  /\ binary_str' = bs
           /\ i' = 0
           /\ IF ~AllBinary(bs)
              THEN /\ errors' = Append(errors, InvalidChar(Strip(line)))
                   /\ ln' = ln + 1 /\ pc' = "line"
              ELSE /\ errors' = IF Len(bs) % 7 # 0
                                THEN Append(errors, IncompleteLine(Strip(line)))
                                ELSE errors
                   /\ IF Len(bs) = 0
                      THEN ln' = ln + 1 /\ pc' = "line"
                      ELSE ln' = ln /\ pc' = "group"
    /\ UNCHANGED <<option, f_in, pos, chunk_size, spacing, f_out, f_key,
                   key_bits, key_index, text, printed, result, saved, errno,
                   output_path>>

\* one iteration of "for i in range(0, len(binary_str), 7)"
DecryptGroup ==
    /\ option = "key" /\ pc = "group"
    /\ LET chunk == SubSeq(binary_str, i + 1, Min(i + 7, Len(binary_str)))
           r     == ProcessBinaryChunk(chunk, 7)
           brk   == Break(i, Len(binary_str), 7)
           cont  == Continue(i, Len(binary_str), 7)
       IN  IF KeyExhausted(key_index, key_bits)
           THEN /\ errors' = Append(errors, RanOut)
                /\ pc' = brk.pc /\ i' = brk.i /\ ln' = ln + brk.lines
                /\ UNCHANGED <<text, key_index, result, errno>>
           ELSE IF r.error # <<>>
           THEN /\ errors' = errors \o r.error
                /\ pc' = cont.pc /\ i' = cont.i /\ ln' = ln + cont.lines
                /\ UNCHANGED <<text, key_index, result, errno>>
           ELSE IF r.char = <<>>
           THEN /\ pc' = cont.pc /\ i' = cont.i /\ ln' = ln + cont.lines
                /\ UNCHANGED <<text, key_index, errors, result, errno>>
           ELSE IF key_bits[key_index + 1] \notin Digits
           THEN \* int() raises ValueError: "except Exception" returns ''
                /\ errno' = TRUE
                /\ result' = << <<>> >>
                /\ pc' = "done"
                /\ UNCHANGED <<text, key_index, errors, i, ln>>
           ELSE /\ text' = Append(text, JoinByte(r.char[1],
                                         IntOfChar(key_bits[key_index + 1])))
                /\ key_index' = AdvanceKey(key_index)
                /\ pc' = cont.pc /\ i' = cont.i /\ ln' = ln + cont.lines
                /\ UNCHANGED <<errors, result, errno>>
    /\ UNCHANGED <<option, f_in, pos, chunk_size, spacing, f_out, f_key,
                   binary_str, key_bits, printed, saved, output_path>>

\* the loop is over: print the diagnostics
DecryptReport ==
    /\ option = "key" /\ pc = "line" /\ ln > Len(f_out)
    /\ printed' = printed \o PrintErrors(errors)
    /\ pc' = "save"
    /\ UNCHANGED <<option, f_in, pos, chunk_size, spacing, f_out, f_key, ln,
                   binary_str, i, key_bits, key_index, text, errors, result,
                   saved, errno, output_path>>

\* "if output_path: save_file(text, output_path)", then return text
DecryptSave ==
    /\ option = "key" /\ pc = "save"
    /\ saved' = IF output_path THEN <<text>> ELSE saved
    /\ result' = <<text>>
    /\ pc' = "done"
    /\ UNCHANGED <<option, f_in, pos, chunk_size, spacing, f_out, f_key, ln,
                   binary_str, i, key_bits, key_index, text, errors, printed,
                   errno, output_path>>

---------------------------------------------------------------------------
(* Round trip of the plain conversion.                                     *)

InitPlain ==
    /\ option = "convert" /\ pc = "encode"
    /\ f_in \in SeqsUpTo(ByteSet, MaxBytes)
    /\ pos = 0
    /\ chunk_size \in 1..MaxChunk
    /\ spacing \in BOOLEAN
    /\ f_out = <<>> /\ f_key = <<>>
    /\ ln = 1 /\ binary_str = <<>> /\ i = 0
    /\ key_bits = <<>> /\ key_index = 0
    /\ text = <<>> /\ errors = <<>> /\ printed = <<>>
    /\ result = <<>> /\ saved = <<>>
    /\ errno = FALSE /\ output_path = TRUE

NextPlain ==
    \/ FileToBinaryChunk
    \/ FileToBinaryDone
    \/ InvokeDeconvert
    \/ DeconvertStart
    \/ DeconvertLine
    \/ DeconvertGroup
    \/ DeconvertReport
    \/ MainSaveFile

SpecPlain == InitPlain /\ [][NextPlain]_vars

\* C1: the text deconvert_binary returns for the lines file_to_binary wrote
\* has the input's bytes as its code points, in order, and no diagnostic is
\* recorded.
C1_PlainRoundTrip ==
    (option = "deconvert" /\ result # <<>>) =>
        /\ result[1] = f_in
        /\ errors = <<>>
        /\ ~errno

C1_Witness ==
    /\ option = "deconvert" /\ result # <<>>
    /\ Len(f_in) = MaxBytes /\ Len(f_out) >= 2
    /\ \E k \in 1..Len(f_in) : f_in[k] = 0
    /\ \E k \in 1..Len(f_in) : f_in[k] >= 128

---------------------------------------------------------------------------
(* Round trip of the split conversion.                                     *)

InitSplit ==
    /\ option = "encrypt" /\ pc = "encode"
    /\ f_in \in SeqsUpTo(ByteSet, MaxBytes)
    /\ pos = 0
    /\ chunk_size \in 1..MaxChunk
    /\ spacing \in BOOLEAN
    /\ f_out = <<>> /\ f_key = <<>>
    /\ ln = 1 /\ binary_str = <<>> /\ i = 0
    /\ key_bits = <<>> /\ key_index = 0
    /\ text = <<>> /\ errors = <<>> /\ printed = <<>>
    /\ result = <<>> /\ saved = <<>>
    /\ errno = FALSE /\ output_path = TRUE

NextSplit ==
    \/ EncryptChunk
    \/ EncryptDone
    \/ InvokeDecrypt
    \/ DecryptStart
    \/ DecryptLine
    \/ DecryptGroup
    \/ DecryptReport
    \/ DecryptSave

SpecSplit == InitSplit /\ [][NextSplit]_vars

\* C2: the text decrypt returns for the payload and key lines encrypt wrote
\* equals the input byte for byte, and no diagnostic is recorded.
C2_SplitRoundTrip ==
    (option = "key" /\ result # <<>>) =>
        /\ result[1] = f_in
        /\ errors = <<>>
        /\ ~errno

C2_Witness ==
    /\ option = "key" /\ result # <<>>
    /\ Len(f_in) = MaxBytes /\ Len(f_out) >= 2
    /\ \E k \in 1..Len(f_in) : f_in[k] % 2 = 1
    /\ \E k \in 1..Len(f_in) : f_in[k] % 2 = 0 /\ f_in[k] >= 128

---------------------------------------------------------------------------
(* Decoding text files that were not written by the encoders.              *)

\* the j-th well-formed group of a hand-written line
SampleGroup(j, width) ==
    Format(SampleBytes[((j - 1) % Len(SampleBytes)) + 1] % Pow2(width), width)

\* what follows the well-formed groups: nothing, a short group, a bad character
Tails == {<<>>, <<"1", "0">>, <<"x">>}

HandLine(n, tail, sp, width) ==
    Join([j \in 1..n |-> SampleGroup(j, width)]
            \o (IF tail = <<>> THEN <<>> ELSE <<tail>>),
         Separator(sp)) \o <<"\n">>

HandLines(sp, width) ==
    { HandLine(n, tail, sp, width) : n \in 0..MaxGroups, tail \in Tails }

PayloadFiles(width) ==
    UNION { SeqsUpTo(HandLines(sp, width), MaxLines) : sp \in BOOLEAN }

\* a key stream of n characters, alternating 1 0 1 ..., with "x" at position bad
KeyStream(n, bad) ==
    [k \in 1..n |-> IF k = bad THEN "x" ELSE IF k % 2 = 1 THEN "1" ELSE "0"]

\* the stream written per characters to a line
RECURSIVE KeyFile(_, _)
KeyFile(stream, per) ==
    IF stream = <<>> THEN <<>>
    ELSE <<SubSeq(stream, 1, Min(per, Len(stream))) \o <<"\n">>>>
         \o KeyFile(SubSeq(stream, Min(per, Len(stream)) + 1, Len(stream)), per)

KeyFiles ==
    { KeyFile(KeyStream(n, bad), per) :
        n \in 0..MaxKeyBits, bad \in 0..MaxKeyBits, per \in {1, MaxKeyBits} }

InitDecode ==
    /\ option \in {"deconvert", "key"}
    /\ pc = "start"
    /\ f_in = <<>> /\ pos = 0 /\ chunk_size = 1 /\ spacing = TRUE
    /\ f_out \in PayloadFiles(IF option = "key" THEN 7 ELSE 8)
    /\ f_key \in (IF option = "key" THEN KeyFiles ELSE {<<>>})
    /\ output_path \in (IF option = "key" THEN BOOLEAN ELSE {TRUE})
    /\ ln = 1 /\ binary_str = <<>> /\ i = 0
    /\ key_bits = <<>> /\ key_index = 0
    /\ text = <<>> /\ errors = <<>> /\ printed = <<>>
    /\ result = <<>> /\ saved = <<>>
    /\ errno = FALSE

NextDecode ==
    \/ DeconvertStart
    \/ DeconvertLine
    \/ DeconvertGroup
    \/ DeconvertReport
    \/ MainSaveFile
    \/ DecryptStart
    \/ DecryptLine
    \/ DecryptGroup
    \/ DecryptReport
    \/ DecryptSave

SpecDecode == InitDecode /\ [][NextDecode]_vars

---------------------------------------------------------------------------
(* What a text file holds, read off the file itself.                       *)

Width == IF option \in {"encrypt", "key"} THEN 7 ELSE 8

\* the characters of a line other than separators and the terminator
Symbols(line) == SelectSeq(line, LAMBDA c : c \notin {" ", "\n"})

OnlyBits(line) == \A k \in 1..Len(line) : line[k] \in {"0", "1", " ", "\n"}

GroupCount(line) == Len(Symbols(line)) \div Width

ShortTail(line) == Len(Symbols(line)) % Width # 0

TailCount(line) == IF ShortTail(line) THEN 1 ELSE 0

RECURSIVE ValueOf(_)
ValueOf(bits) ==
    IF bits = <<>> THEN 0
    ELSE (IF Head(bits) = "1" THEN Pow2(Len(bits) - 1) ELSE 0) + ValueOf(Tail(bits))

\* the values of the full-width groups of a line
LineValues(line) ==
    [j \in 1..GroupCount(line) |->
        ValueOf(SubSeq(Symbols(line), (j - 1) * Width + 1, j * Width))]

\* the lines without the ones holding a character other than 0 and 1
Clean(lines) == SelectSeq(lines, OnlyBits)

\* the values of the full-width groups of the clean lines, in file order
ValuesOf(lines) ==
    Flatten([l \in 1..Len(Clean(lines)) |-> LineValues(Clean(lines)[l])])

\* how many of them have a key bit
BudgetOf(lines) ==
    IF option = "key" THEN Min(Len(key_bits), Len(ValuesOf(lines)))
    ELSE Len(ValuesOf(lines))

\* the bytes they stand for
ExpectedOf(lines) ==
    [k \in 1..BudgetOf(lines) |->
        IF option = "key"
        THEN 2 * ValuesOf(lines)[k] + (IF key_bits[k] = "1" THEN 1 ELSE 0)
        ELSE ValuesOf(lines)[k]]

\* the j-th line of clean lines c reaches a group that has no key bit
Starved(c, j) ==
    /\ option = "key"
    /\ GroupCount(c[j]) + TailCount(c[j])
          > Len(key_bits) - BudgetOf(SubSeq(c, 1, j - 1))

\* the kinds of the diagnostics of the j-th line of clean lines c
CleanDiags(c, j) ==
    (IF ShortTail(c[j]) THEN <<"Incomplete binary len line">> ELSE <<>>)
    \o (IF Starved(c, j) THEN <<"Ran out of key bits">>
        ELSE IF ShortTail(c[j]) THEN <<"Skipped incomplete chunk">>
        ELSE <<>>)

\* the kinds of the diagnostics of the lines, in file order
DiagsOf(lines) ==
    Flatten([l \in 1..Len(lines) |->
        IF ~OnlyBits(lines[l]) THEN <<"Invalid char in line">>
        ELSE CleanDiags(Clean(SubSeq(lines, 1, l)),
                        Len(Clean(SubSeq(lines, 1, l))))])

Kinds(es) == [k \in 1..Len(es) |-> es[k][1]]

KindCount(kind) == Cardinality({k \in 1..Len(errors) : errors[k][1] = kind})

\* the decoder stands between two lines, or past the last one
AtBoundary ==
    /\ option \in {"deconvert", "key"}
    /\ pc \in {"line", "save", "done"}
    /\ ~errno

\* the lines the decoder has gone through
Read == SubSeq(f_out, 1, ln - 1)

StarvedLines(c) == {j \in 1..Len(c) : Starved(c, j)}

\* every character of the flattened key stream is a bit
KeyOfBits == \A k \in 1..Len(key_bits) : key_bits[k] \in {"0", "1"}

TailLines(c) == {j \in 1..Len(c) : ShortTail(c[j])}

---------------------------------------------------------------------------
(* encrypt keeps its two outputs in step.                                  *)

ChunkBytes(n) == Min(chunk_size, Len(f_in) - (n - 1) * chunk_size)

\* C3: after every chunk iteration of encrypt the payload file and the key
\* file hold the same number of lines, and line n of each holds one group,
\* respectively one key bit, per byte of the n-th input chunk.
C3_ChunkSynchronized ==
    (option \in {"encrypt", "key"}) =>
        /\ Len(f_key) = Len(f_out)
        /\ Len(f_out) * chunk_size >= pos
        /\ Len(f_out) * chunk_size < pos + chunk_size
        /\ \A n \in 1..Len(f_out) :
              /\ OnlyBits(f_out[n]) /\ ~ShortTail(f_out[n])
              /\ GroupCount(f_out[n]) = ChunkBytes(n)
              /\ OnlyBits(f_key[n])
              /\ Len(Symbols(f_key[n])) = ChunkBytes(n)

C3_Witness ==
    /\ option = "encrypt" /\ pc = "exit"
    /\ Len(f_out) = 2 /\ Len(f_key) = 2
    /\ ChunkBytes(1) = 2 /\ ChunkBytes(2) = 1

---------------------------------------------------------------------------
(* decrypt: key exhaustion.                                                *)

\* C4: when the key stream is shorter than the number of full 7-bit groups
\* of the lines gone through, decrypt has recorded "Ran out of key bits"
\* once for every line in which a group was reached without a key bit, has
\* looked at no further group of such a line, has gone on to the following
\* lines, and has rebuilt every group of the lines before the first such line.
\* A key stream of bits never cuts the pass short.
C4_KeyExhaustion ==
    /\ (option = "key" /\ KeyOfBits) => ~errno
    /\ (AtBoundary /\ option = "key" /\ Len(key_bits) < Len(ValuesOf(Read))) =>
        LET c     == Clean(Read)
            first == CHOOSE j \in StarvedLines(c) :
                         \A m \in StarvedLines(c) : j <= m
        IN  /\ StarvedLines(c) # {}
            /\ KindCount("Ran out of key bits") = Cardinality(StarvedLines(c))
            /\ KindCount("Skipped incomplete chunk")
                  = Cardinality(TailLines(c) \ StarvedLines(c))
            /\ Len(text) >= Len(ValuesOf(SubSeq(c, 1, first - 1)))
            /\ text = ExpectedOf(Read)
            /\ Len(text) = Len(key_bits)
            /\ key_index = Len(key_bits)

\* the key ends inside line 2, after line 1 was decoded in full; line 2 has
\* a group left
C4_Witness ==
    /\ option = "key" /\ pc = "done" /\ ~errno /\ KeyOfBits
    /\ Len(f_out) = 2 /\ Clean(f_out) = f_out
    /\ GroupCount(f_out[1]) >= 1 /\ GroupCount(f_out[2]) = 2
    /\ Len(key_bits) = GroupCount(f_out[1]) + 1
    /\ KindCount("Ran out of key bits") = 1

---------------------------------------------------------------------------
(* Lines with a character other than 0 and 1.                              *)

\* C5: a line holding a character other than 0 and 1 adds exactly one
\* diagnostic and no byte; the output and the other diagnostics are those of
\* the file without such lines.
C5_InvalidCharTolerance ==
    AtBoundary =>
        /\ KindCount("Invalid char in line") = Len(Read) - Len(Clean(Read))
        /\ text = ExpectedOf(Clean(Read))
        /\ SelectSeq(Kinds(errors), LAMBDA k : k # "Invalid char in line")
              = DiagsOf(Clean(Read))

\* a contaminated line with a well-formed group, between two decoded lines
C5_Witness ==
    /\ AtBoundary /\ pc = "done"
    /\ Len(f_out) = 2 /\ Len(text) >= 1
    /\ ~OnlyBits(f_out[1]) /\ GroupCount(f_out[1]) >= 1
    /\ OnlyBits(f_out[2]) /\ GroupCount(f_out[2]) >= 1

---------------------------------------------------------------------------
(* Lines whose length is not a multiple of the width.                      *)

\* C6: a clean line whose length is not a multiple of the width adds a
\* diagnostic; each of its full-width groups is decoded, in order (in decrypt
\* when the key stream reaches to the last of them), and its short group
\* gives no byte.  With a key stream of bits every line is gone through.
C6_MalformedWidthTolerance ==
    /\ (option = "deconvert" \/ KeyOfBits) => ~errno
    /\ AtBoundary =>
        LET c == Clean(Read)
        IN  /\ KindCount("Incomplete binary len line") = Cardinality(TailLines(c))
            /\ Len(errors) >= Cardinality(TailLines(c))
            /\ Len(text) = BudgetOf(Read)
            /\ \A j \in TailLines(c) :
                  LET before == Len(ValuesOf(SubSeq(c, 1, j - 1)))
                      n      == GroupCount(c[j])
                  IN  (option = "deconvert" \/ before + n <= Len(key_bits)) =>
                          /\ Len(text) >= before + n
                          /\ \A g \in 1..n :
                                IF option = "key"
                                THEN /\ text[before + g] \div 2 = LineValues(c[j])[g]
                                     /\ text[before + g] % 2
                                          = (IF key_bits[before + g] = "1" THEN 1 ELSE 0)
                                ELSE text[before + g] = LineValues(c[j])[g]

\* decrypt went through a line of two full groups and a short one with key
\* bits for both
C6_Witness ==
    /\ AtBoundary /\ option = "key" /\ pc = "done" /\ KeyOfBits
    /\ Len(f_out) >= 1 /\ OnlyBits(f_out[1]) /\ ShortTail(f_out[1])
    /\ GroupCount(f_out[1]) = 2 /\ Len(key_bits) >= 2
    /\ Len(text) >= 2

---------------------------------------------------------------------------
(* A pass is never cut short by what the files hold.                       *)

\* C7: whatever the payload and the key hold, the pass goes through every
\* line and returns the text rebuilt so far; it never ends early with an
\* empty result.
C7_NeverAborts ==
    (option \in {"deconvert", "key"} /\ pc = "done") =>
        /\ ~errno
        /\ ln > Len(f_out)
        /\ result = <<text>>

---------------------------------------------------------------------------
(* How many diagnostics a defect gives.                                    *)

\* the defects of the lines gone through: contaminated lines, lines of a
\* wrong width, an exhausted key
DefectCount ==
    (Len(Read) - Len(Clean(Read)))
    + Cardinality(TailLines(Clean(Read)))
    + (IF StarvedLines(Clean(Read)) # {} THEN 1 ELSE 0)

\* C8 as stated: the pass ends with one diagnostic per defect.
C8_OnePerDefect ==
    (AtBoundary /\ pc \in {"save", "done"}) => Len(errors) = DefectCount

\* C8: a contaminated line gives one diagnostic; a clean line of a wrong
\* width gives two (one for the line, one at its short group or at the group
\* that found the key exhausted); any other line in which a group finds the
\* key exhausted gives one.
C8_DiagnosticsPerDefect ==
    AtBoundary =>
        LET c == Clean(Read)
        IN  /\ Len(errors) = (Len(Read) - Len(c))
                             + 2 * Cardinality(TailLines(c))
                             + Cardinality(StarvedLines(c) \ TailLines(c))
            /\ KindCount("Skipped incomplete chunk") + KindCount("Ran out of key bits")
                  = Cardinality(TailLines(c) \cup StarvedLines(c))
            /\ KindCount("Invalid binary chunk") = 0

\* a pass over a contaminated line, a line of a wrong width and an exhausted key
C8_Witness ==
    /\ AtBoundary /\ option = "key" /\ pc = "done"
    /\ Len(Read) > Len(Clean(Read))
    /\ TailLines(Clean(Read)) # {}
    /\ StarvedLines(Clean(Read)) # {}
    /\ Len(errors) = 3

---------------------------------------------------------------------------
(* When the diagnostics are printed.                                       *)

\* C9: nothing is printed while a line is still to be read; after the last
\* line the diagnostics are printed in the order recorded, which is the order
\* of the defects in the file, and only then is the text handed to save_file.
C9_ReportAfterPass ==
    (option \in {"deconvert", "key"}) =>
        /\ (printed # <<>>) =>
              /\ pc \in {"save", "done"}
              /\ ln > Len(f_out)
        /\ (pc \in {"save", "done"} /\ ~errno) =>
              /\ printed = errors
              /\ Kinds(printed) = DiagsOf(f_out)
        /\ (saved # <<>>) =>
              /\ pc = "done" /\ ~errno
              /\ printed = errors
              /\ saved = <<text>>
        /\ (pc = "save") => saved = <<>>

\* two diagnostics of different lines were printed and the text was saved
C9_Witness ==
    /\ option \in {"deconvert", "key"} /\ pc = "done"
    /\ saved # <<>>
    /\ Len(printed) >= 2
    /\ printed[1] # printed[Len(printed)]
    /\ ~OnlyBits(f_out[1])

---------------------------------------------------------------------------
(* The key index of decrypt.                                               *)

KeyIndexInv ==
    (option = "key") =>
        /\ key_index = Len(text)
        /\ key_index <= Len(key_bits)
        /\ \A k \in 1..Len(text) :
              /\ key_bits[k] \in Digits
              /\ text[k] % 2 = IntOfChar(key_bits[k]) % 2
              /\ text[k] \div 2 = ValuesOf(f_out)[k]

KeyIndexStep ==
    (option = "key") =>
        \/ key_index' = key_index /\ text' = text
        \/ /\ key_index' = key_index + 1
           /\ Len(text') = Len(text) + 1
           /\ SubSeq(text', 1, Len(text)) = text
           /\ pc = "group" /\ errors' = errors

\* C10: in decrypt the key index is the number of bytes output, never past
\* the key stream, never reset; it moves by one exactly when a byte is
\* appended, and the k-th byte is built from key bit k.
C10_KeyIndex == [](KeyIndexInv) /\ [][KeyIndexStep]_vars

\* the second line's byte was built from the key bit after the first line's
C10_Witness ==
    /\ option = "key" /\ pc = "line" /\ ln = 3
    /\ Len(errors) >= 2
    /\ key_index = 3
    /\ GroupCount(f_out[1]) = 2 /\ GroupCount(f_out[2]) >= 1

=============================================================================
